---------------------------- MODULE Spec2Model ----------------------------
(***************************************************************************)
(* Training-step orchestration of the semi-supervised regression           *)
(* algorithms MeanTeacher and RankUp (semilearn/algorithms).               *)
(*                                                                         *)
(* One training run of one algorithm instance is modelled: the state after *)
(* construction (arguments stored, hooks registered), then train_step      *)
(* line by line, then the harness' parameter update between two steps.     *)
(* Collaborators whose code lives outside the algorithm files (EMA, the BN *)
(* controller, the hook registry, the RDA hook, the training loop) follow  *)
(* their documented contracts.                                             *)
(***************************************************************************)
EXTENDS Integers, Sequences, FiniteSets

(***************************************************************************)
(* Bounds of the model.                                                    *)
(***************************************************************************)
MaxTrainIter == 3      \* num_train_iter ranges over 1..MaxTrainIter
WarmDen      == 2      \* reg_unsup_warm_up ranges over {0/WarmDen .. WarmDen/WarmDen}
MaxRatio     == 1      \* reg_ulb_loss_ratio ranges over 0..MaxRatio
MaxLoss      == 1      \* a loss kernel / a logit returns a value in 0..MaxLoss
MaxRefine    == 2      \* rda_num_refine_iter ranges over 1..MaxRefine
NumLayers    == 2      \* normalisation layers of the network
NumUlb       == 2      \* size of the unlabeled training set

Layers  == 1..NumLayers
UlbIdx  == 1..NumUlb
Losses  == 0..MaxLoss

(***************************************************************************)
(* Exact rational arithmetic for the schedule: a value is num/den, den > 0.*)
(***************************************************************************)
Rat(n, d) == [num |-> n, den |-> d]
RatLess(a, b) == a.num * b.den < b.num * a.den
RatLeq(a, b)  == a.num * b.den <= b.num * a.den
RatEq(a, b)   == a.num * b.den = b.num * a.den
RatZero == Rat(0, 1)
RatOne  == Rat(1, 1)

\* reg_unsup_warm_up * num_train_iter
WarmUpSpan(a) == Rat(a.reg_unsup_warm_up.num * a.num_train_iter, a.reg_unsup_warm_up.den)

\* Python's  x / y  raises ZeroDivisionError when y is zero.
TrueDivRaises(y) == y.num = 0
\* x / y for an integer x and a rational y > 0
TrueDiv(x, y) == Rat(x * y.den, y.num)

\* np.clip(x, a_min, a_max) = minimum(maximum(x, a_min), a_max)
np_clip(x, a_min, a_max) ==
    LET lo == IF RatLess(x, a_min) THEN a_min ELSE x
    IN  IF RatLess(a_max, lo) THEN a_max ELSE lo


\* self.it / (self.reg_unsup_warm_up * self.num_train_iter) raises
WarmupRaises(a) == TrueDivRaises(WarmUpSpan(a))

\* np.clip(self.it / (self.reg_unsup_warm_up * self.num_train_iter), a_min=0.0, a_max=1.0)
unsup_warmup_Unclipped(i, a) == TrueDiv(i, WarmUpSpan(a))
unsup_warmup(i, a) == np_clip(TrueDiv(i, WarmUpSpan(a)), RatZero, RatOne)

\* the same expression, in RankUp.train_step
reg_unsup_warmup(i, a) == np_clip(TrueDiv(i, WarmUpSpan(a)), RatZero, RatOne)

\* total_loss = sup_loss + self.reg_ulb_loss_ratio * unsup_loss * unsup_warmup
total_loss(sup, ratio, unsup, w) == Rat(sup * w.den + ratio * unsup * w.num, w.den)

\* total_reg_loss = reg_sup_loss + self.reg_ulb_loss_ratio * reg_unsup_loss * reg_unsup_warmup
total_reg_loss(sup, ratio, unsup, w) == Rat(sup * w.den + ratio * unsup * w.num, w.den)

(***************************************************************************)
(* EMA controller: a shadow copy of the parameters, swapped in by          *)
(* apply_shadow, which remembers the live values, and out by restore.      *)
(* A parameter tensor is named by whose weights it holds and the number of *)
(* optimizer steps that produced them.                                     *)
(***************************************************************************)
Weights(who, version) == [who |-> who, version |-> version]

\* the pair <<live parameters, ema state>> after ema.apply_shadow()
apply_shadow(p, e) == << e.shadow, [e EXCEPT !.backup = <<p>>] >>

\* the pair <<live parameters, ema state>> after ema.restore()
restore(p, e) ==
    IF e.backup = <<>> THEN << p, e >>
    ELSE << e.backup[1], [e EXCEPT !.backup = <<>>] >>

ShadowApplied(e) == e.backup # <<>>

(***************************************************************************)
(* BN controller: freeze_bn captures every layer's "update statistics"     *)
(* flag and clears it; unfreeze_bn puts the captured flags back.           *)
(***************************************************************************)
\* the pair <<flags, captured flags>> after bn_controller.freeze_bn(model)
freeze_bn(flags, backup) == << [l \in Layers |-> FALSE], <<flags>> >>

\* the pair <<flags, captured flags>> after bn_controller.unfreeze_bn(model)
unfreeze_bn(flags, backup) ==
    IF backup = <<>> THEN << flags, backup >>
    ELSE << backup[1], <<>> >>

BnFrozen(backup) == backup # <<>>

(***************************************************************************)
(* Hook registry: a mapping from hook name to hook instance.               *)
(***************************************************************************)
Hook(cls, owner) == [cls |-> cls, owner |-> owner]

\* register_hook(hook, name): a later registration of a name replaces the earlier
register_hook(h, hook, name) ==
    [n \in (DOMAIN h) \cup {name} |-> IF n = name THEN hook ELSE h[n]]

\* the operations a hook class offers
HookOps(cls) ==
    CASE cls = "RDAHook" -> {"gen_ulb_targets"}
      [] cls = "PseudoLabelingHook" -> {"gen_ulb_targets"}
      [] cls = "FixedThresholdingHook" -> {"masking"}
      [] cls = "MaskingHook" -> {"masking"}
      [] OTHER -> {}

\* call_hook(fn_name, hook_name): "ok", or the error it fails with
call_hook_result(h, fn_name, hook_name) ==
    IF hook_name \notin DOMAIN h THEN "hook not found"
    ELSE IF fn_name \notin HookOps(h[hook_name].cls) THEN "operation not found"
    ELSE "ok"

\* what the base class registers: the hooks named in base, under default classes
RECURSIVE AlgorithmBase_set_hooks(_, _)
AlgorithmBase_set_hooks(h, base) ==
    IF base = {} THEN h
    ELSE LET n == CHOOSE x \in base : TRUE
         IN  AlgorithmBase_set_hooks(
                 register_hook(h, Hook(n, "AlgorithmBase"), n),
                 base \ {n})

\* MeanTeacher does not override set_hooks
MeanTeacher_set_hooks(h, base) == AlgorithmBase_set_hooks(h, base)

RankUp_set_hooks_NoMasking(h, base) ==
    LET h0 == AlgorithmBase_set_hooks(h, base)
        h1 == register_hook(h0, Hook("RDAHook", "RankUp"), "RDAHook")
    IN  register_hook(h1, Hook("PseudoLabelingHook", "RankUp"), "PseudoLabelingHook")

RankUp_set_hooks_SuperLast(h, base) ==
    LET h1 == register_hook(h, Hook("RDAHook", "RankUp"), "RDAHook")
        h2 == register_hook(h1, Hook("PseudoLabelingHook", "RankUp"), "PseudoLabelingHook")
        h3 == register_hook(h2, Hook("FixedThresholdingHook", "RankUp"), "MaskingHook")
    IN  AlgorithmBase_set_hooks(h3, base)

\* RankUp.set_hooks: the base class' hooks, then RDAHook, PseudoLabelingHook, MaskingHook
RankUp_set_hooks(h, base) ==
    LET h0 == AlgorithmBase_set_hooks(h, base)
        h1 == register_hook(h0, Hook("RDAHook", "RankUp"), "RDAHook")
        h2 == register_hook(h1, Hook("PseudoLabelingHook", "RankUp"), "PseudoLabelingHook")
    IN  register_hook(h2, Hook("FixedThresholdingHook", "RankUp"), "MaskingHook")

NoHooks == [n \in {} |-> Hook("", "")]

(***************************************************************************)
(* RDA hook: a refinement buffer with one target per unlabeled sample,     *)
(* a call counter, and a refinement of the whole buffer every              *)
(* num_refine_iter calls.                                                  *)
(***************************************************************************)
\* the labeled targets, sorted: one quantile per rank of the unlabeled set
sorted_lb_targets == [r \in UlbIdx |-> r]

\* the value every buffer entry holds before the first refinement
InitTarget == 1

\* the hook as RankUp.set_hooks constructs it
RDAHook_init(num_refine_iter) ==
    [num_refine_iter |-> num_refine_iter,
     count    |-> 0,
     buffer   |-> [i \in UlbIdx |-> InitTarget],
     passes   |-> 0,
     due      |-> FALSE,
     aborted  |-> FALSE,
     before   |-> [i \in UlbIdx |-> InitTarget]]

\* rank of sample i among the predictions, ties by index
RankOf(preds, i) ==
    1 + Cardinality({j \in UlbIdx : preds[j] < preds[i] \/ (preds[j] = preds[i] /\ j < i)})

\* the refined buffer: each sample gets the labeled quantile of its prediction's rank
apply_dist_align(preds) == [i \in UlbIdx |-> sorted_lb_targets[RankOf(preds, i)]]

refine_Partial(buffer, preds, loader_ok) ==
    IF loader_ok THEN apply_dist_align(preds)
    ELSE [i \in UlbIdx |-> IF i = 1 THEN apply_dist_align(preds)[i] ELSE buffer[i]]

\* the buffer after a refinement pass: all of it overwritten, or, when the
\* loader gives out mid-pass, none of it
refine(buffer, preds, loader_ok) ==
    IF loader_ok THEN apply_dist_align(preds) ELSE buffer

\* the hook after gen_ulb_targets: the counter incremented, the buffer refined
\* first when the counter reaches a multiple of num_refine_iter
RefinementDue(r) == (r.count + 1) % r.num_refine_iter = 0

RDAHook_gen_ulb_targets(r, preds, loader_ok) ==
    LET due == RefinementDue(r)
    IN  [r EXCEPT !.count   = r.count + 1,
                  !.before  = r.buffer,
                  !.buffer  = IF due THEN refine(r.buffer, preds, loader_ok) ELSE r.buffer,
                  !.passes  = IF due THEN r.passes + 1 ELSE r.passes,
                  !.due     = due,
                  !.aborted = due /\ ~loader_ok]

(***************************************************************************)
(* State.                                                                  *)
(***************************************************************************)
VARIABLES
    args,        \* the algorithm and its arguments, fixed at construction
    hooks_dict,  \* the hook registry
    it,          \* current iteration
    pc,          \* position in train_step, or "idle" / "returned" / "failed"
    err,         \* the exception a failed step propagates
    params,      \* the live model's parameters
    ema,         \* [shadow, backup]: the EMA controller
    bn_flag,     \* each normalisation layer's "update statistics" flag
    bn_backup,   \* the BN controller's captured flags
    rda,         \* the RDA hook
    out,         \* the losses of the step in progress
    calls,       \* the calls the step in progress has made, each with the
                 \* EMA and BN state it ran under
    pre,         \* parameters and BN flags at entry to the step in progress
    prev_warmup  \* the warm-up weights of the steps so far

vars == << args, hooks_dict, it, pc, err, params, ema, bn_flag, bn_backup,
           rda, out, calls, pre, prev_warmup >>

WarmFractions == { Rat(k, WarmDen) : k \in 0..WarmDen }

BaseHookSets == { {"EMAHook"}, {"EMAHook", "PseudoLabelingHook"},
                  {"EMAHook", "PseudoLabelingHook", "MaskingHook", "RDAHook"} }

Algorithms == {"meanteacher", "rankup"}

NoOut == [idx |-> 0, logits |-> 0, sup |-> 0, unsup |-> 0, target |-> 0,
          warmup |-> RatZero, total |-> RatZero]

Call(op, owner) == [op |-> op, owner |-> owner,
                    shadow |-> ShadowApplied(ema), frozen |-> BnFrozen(bn_backup)]

\* consistency_loss(logits, targets, "mse") on one sample
mse(logits, targets) == (logits - targets) * (logits - targets)

\* The state after construction, the arguments drawn from the given sets.
InitWith(RdaModes, Ws, Ns, Ratios, Ks, Bases, Flags) ==
    /\ \E alg \in Algorithms, rda_on \in RdaModes, w \in Ws, n \in Ns,
          ratio \in Ratios, k \in Ks, base \in Bases :
          /\ alg = "meanteacher" =>
                /\ rda_on = (CHOOSE x \in RdaModes : TRUE)
                /\ k = (CHOOSE x \in Ks : TRUE)
                /\ base = (CHOOSE x \in Bases : TRUE)
          /\ args = [alg |-> alg, use_rda |-> rda_on, reg_unsup_warm_up |-> w,
                     num_train_iter |-> n, reg_ulb_loss_ratio |-> ratio,
                     rda_num_refine_iter |-> k, base_hooks |-> base]
          /\ hooks_dict = IF alg = "rankup" THEN RankUp_set_hooks(NoHooks, base)
                          ELSE MeanTeacher_set_hooks(NoHooks, base)
          /\ rda = RDAHook_init(k)
    /\ it = 0
    /\ pc = "idle"
    /\ err = "none"
    /\ params = Weights("student", 0)
    /\ ema = [shadow |-> Weights("ema", 0), backup |-> <<>>]
    /\ bn_flag \in Flags
    /\ bn_backup = <<>>
    /\ out = NoOut
    /\ calls = <<>>
    /\ pre = [params |-> params, bn_flag |-> bn_flag]
    /\ prev_warmup = <<>>

Init == InitWith(BOOLEAN, WarmFractions, 1..MaxTrainIter, 0..MaxRatio, 1..MaxRefine,
                 BaseHookSets, [Layers -> BOOLEAN])

(***************************************************************************)
(* A step that raises: the exception leaves train_step as it is raised;    *)
(* train_step has no handler and no cleanup on the way out.                *)
(***************************************************************************)
Raise(e) ==
    /\ pc' = "failed"
    /\ err' = e

Config == << args, hooks_dict, it >>

(***************************************************************************)
(* MeanTeacher.train_step                                                  *)
(***************************************************************************)
\* outs_x_lb = self.model(x_lb); the training loop calls train_step while
\* it < num_train_iter
MT_ForwardLb ==
    /\ pc = "idle"
    /\ args.alg = "meanteacher"
    /\ it < args.num_train_iter
    /\ pre' = [params |-> params, bn_flag |-> bn_flag]
    /\ calls' = << Call("forward x_lb", "") >>
    /\ out' = NoOut
    /\ \E ok \in BOOLEAN :
          IF ok THEN pc' = "mt_apply_shadow" /\ err' = err ELSE Raise("forward")
    /\ UNCHANGED << Config, params, ema, bn_flag, bn_backup, rda, prev_warmup >>

\* self.ema.apply_shadow()
MT_ApplyShadow ==
    /\ pc = "mt_apply_shadow"
    /\ params' = apply_shadow(params, ema)[1]
    /\ ema' = apply_shadow(params, ema)[2]
    /\ calls' = Append(calls, Call("apply_shadow", ""))
    /\ pc' = "mt_freeze_bn_1"
    /\ UNCHANGED << Config, err, bn_flag, bn_backup, rda, out, pre, prev_warmup >>

\* self.bn_controller.freeze_bn(self.model)
MT_FreezeBn1 ==
    /\ pc = "mt_freeze_bn_1"
    /\ bn_flag' = freeze_bn(bn_flag, bn_backup)[1]
    /\ bn_backup' = freeze_bn(bn_flag, bn_backup)[2]
    /\ calls' = Append(calls, Call("freeze_bn", ""))
    /\ pc' = "mt_forward_ulb_w"
    /\ UNCHANGED << Config, err, params, ema, rda, out, pre, prev_warmup >>

\* outs_x_ulb_w = self.model(x_ulb_w)
MT_ForwardUlbW ==
    /\ pc = "mt_forward_ulb_w"
    /\ calls' = Append(calls, Call("forward x_ulb_w", ""))
    /\ \E ok \in BOOLEAN :
          IF ok THEN pc' = "mt_unfreeze_bn_1" /\ err' = err ELSE Raise("forward")
    /\ UNCHANGED << Config, params, ema, bn_flag, bn_backup, rda, out, pre, prev_warmup >>

\* self.bn_controller.unfreeze_bn(self.model)
MT_UnfreezeBn1 ==
    /\ pc = "mt_unfreeze_bn_1"
    /\ bn_flag' = unfreeze_bn(bn_flag, bn_backup)[1]
    /\ bn_backup' = unfreeze_bn(bn_flag, bn_backup)[2]
    /\ calls' = Append(calls, Call("unfreeze_bn", ""))
    /\ pc' = "mt_restore"
    /\ UNCHANGED << Config, err, params, ema, rda, out, pre, prev_warmup >>

MT_Restore_Skipped ==
    /\ pc = "mt_restore"
    /\ pc' = "mt_freeze_bn_2"
    /\ UNCHANGED << Config, err, params, ema, bn_flag, bn_backup, rda, out, calls, pre, prev_warmup >>

\* self.ema.restore()
MT_Restore ==
    /\ pc = "mt_restore"
    /\ params' = restore(params, ema)[1]
    /\ ema' = restore(params, ema)[2]
    /\ calls' = Append(calls, Call("restore", ""))
    /\ pc' = "mt_freeze_bn_2"
    /\ UNCHANGED << Config, err, bn_flag, bn_backup, rda, out, pre, prev_warmup >>

\* self.bn_controller.freeze_bn(self.model)
MT_FreezeBn2 ==
    /\ pc = "mt_freeze_bn_2"
    /\ bn_flag' = freeze_bn(bn_flag, bn_backup)[1]
    /\ bn_backup' = freeze_bn(bn_flag, bn_backup)[2]
    /\ calls' = Append(calls, Call("freeze_bn", ""))
    /\ pc' = "mt_forward_ulb_w_2"
    /\ UNCHANGED << Config, err, params, ema, rda, out, pre, prev_warmup >>

\* outs_x_ulb_w_2 = self.model(x_ulb_w_2)
MT_ForwardUlbW2 ==
    /\ pc = "mt_forward_ulb_w_2"
    /\ calls' = Append(calls, Call("forward x_ulb_w_2", ""))
    /\ \E ok \in BOOLEAN :
          IF ok THEN pc' = "mt_unfreeze_bn_2" /\ err' = err ELSE Raise("forward")
    /\ UNCHANGED << Config, params, ema, bn_flag, bn_backup, rda, out, pre, prev_warmup >>

\* self.bn_controller.unfreeze_bn(self.model)
MT_UnfreezeBn2 ==
    /\ pc = "mt_unfreeze_bn_2"
    /\ bn_flag' = unfreeze_bn(bn_flag, bn_backup)[1]
    /\ bn_backup' = unfreeze_bn(bn_flag, bn_backup)[2]
    /\ calls' = Append(calls, Call("unfreeze_bn", ""))
    /\ pc' = "mt_loss"
    /\ UNCHANGED << Config, err, params, ema, rda, out, pre, prev_warmup >>

\* sup_loss, unsup_loss, unsup_warmup, total_loss; the step returns
MT_Loss ==
    /\ pc = "mt_loss"
    /\ \E sup \in Losses, unsup \in Losses :
          IF WarmupRaises(args)
          THEN /\ Raise("ZeroDivisionError")
               /\ out' = [out EXCEPT !.sup = sup, !.unsup = unsup]
               /\ UNCHANGED prev_warmup
          ELSE /\ out' = [out EXCEPT !.sup = sup, !.unsup = unsup,
                                     !.warmup = unsup_warmup(it, args),
                                     !.total = total_loss(sup, args.reg_ulb_loss_ratio, unsup,
                                                          unsup_warmup(it, args))]
               /\ prev_warmup' = Append(prev_warmup, unsup_warmup(it, args))
               /\ pc' = "returned"
               /\ err' = err
    /\ UNCHANGED << Config, params, ema, bn_flag, bn_backup, rda, calls, pre >>

(***************************************************************************)
(* RankUp.train_step                                                       *)
(***************************************************************************)
\* self.idx_ulb = idx_ulb; outs_x_lb = self.model(x_lb, use_arc=True, targets=y_lb)
RU_ForwardLb ==
    /\ pc = "idle"
    /\ args.alg = "rankup"
    /\ it < args.num_train_iter
    /\ pre' = [params |-> params, bn_flag |-> bn_flag]
    /\ calls' = << Call("forward x_lb", "") >>
    /\ \E idx_ulb \in UlbIdx : out' = [NoOut EXCEPT !.idx = idx_ulb]
    /\ \E ok \in BOOLEAN :
          IF ok THEN pc' = "ru_freeze_bn" /\ err' = err ELSE Raise("forward")
    /\ UNCHANGED << Config, params, ema, bn_flag, bn_backup, rda, prev_warmup >>

\* self.bn_controller.freeze_bn(self.model)
RU_FreezeBn ==
    /\ pc = "ru_freeze_bn"
    /\ bn_flag' = freeze_bn(bn_flag, bn_backup)[1]
    /\ bn_backup' = freeze_bn(bn_flag, bn_backup)[2]
    /\ calls' = Append(calls, Call("freeze_bn", ""))
    /\ pc' = "ru_forward_ulb_w"
    /\ UNCHANGED << Config, err, params, ema, rda, out, pre, prev_warmup >>

\* outs_x_ulb_w = self.model(x_ulb_w, use_arc=True); probs_x_ulb_w
RU_ForwardUlbW ==
    /\ pc = "ru_forward_ulb_w"
    /\ calls' = Append(calls, Call("forward x_ulb_w", ""))
    /\ \E ok \in BOOLEAN, logits_x_ulb_w \in Losses :
          IF ok THEN /\ pc' = "ru_unfreeze_bn"
                     /\ err' = err
                     /\ out' = [out EXCEPT !.logits = logits_x_ulb_w]
                ELSE Raise("forward") /\ out' = out
    /\ UNCHANGED << Config, params, ema, bn_flag, bn_backup, rda, pre, prev_warmup >>

\* self.bn_controller.unfreeze_bn(self.model)
RU_UnfreezeBn ==
    /\ pc = "ru_unfreeze_bn"
    /\ bn_flag' = unfreeze_bn(bn_flag, bn_backup)[1]
    /\ bn_backup' = unfreeze_bn(bn_flag, bn_backup)[2]
    /\ calls' = Append(calls, Call("unfreeze_bn", ""))
    /\ pc' = "ru_forward_ulb_s"
    /\ UNCHANGED << Config, err, params, ema, rda, out, pre, prev_warmup >>

\* outs_x_ulb_s = self.model(x_ulb_s, use_arc=True); reg_sup_loss
RU_ForwardUlbS ==
    /\ pc = "ru_forward_ulb_s"
    /\ calls' = Append(calls, Call("forward x_ulb_s", ""))
    /\ \E ok \in BOOLEAN, reg_sup_loss \in Losses :
          IF ok THEN /\ pc' = "ru_reg_unsup"
                     /\ err' = err
                     /\ out' = [out EXCEPT !.sup = reg_sup_loss]
                ELSE Raise("forward") /\ out' = out
    /\ UNCHANGED << Config, params, ema, bn_flag, bn_backup, rda, pre, prev_warmup >>

\* what a full pass over the unlabeled set may predict, and whether the
\* loader lasts through it; both are read only when a refinement is due
FullPassPredictions(r) ==
    IF RefinementDue(r) THEN [UlbIdx -> Losses] ELSE {[i \in UlbIdx |-> 0]}
LoaderOutcomes(r) == IF RefinementDue(r) THEN BOOLEAN ELSE {TRUE}

RankUp_UsesRDA_Always(a) == TRUE
\* if self.use_rda:
RankUp_UsesRDA(a) == a.use_rda

RU_RegUnsup_Twice ==
    /\ pc = "ru_reg_unsup"
    /\ IF RankUp_UsesRDA(args)
       THEN \E preds \in FullPassPredictions(rda), loader_ok \in LoaderOutcomes(rda) :
               LET r1 == RDAHook_gen_ulb_targets(rda, preds, loader_ok)
                   r  == RDAHook_gen_ulb_targets(r1, preds, loader_ok)
               IN  /\ rda' = r
                   /\ out' = [out EXCEPT !.target = r.buffer[out.idx],
                                         !.unsup = mse(out.logits, r.buffer[out.idx])]
                   /\ calls' = Append(calls, Call("RDAHook.gen_ulb_targets",
                                                  hooks_dict["RDAHook"].owner))
                   /\ pc' = "ru_masking"
                   /\ err' = err
       ELSE /\ out' = [out EXCEPT !.unsup = 0]
            /\ pc' = "ru_masking"
            /\ UNCHANGED << rda, calls, err >>
    /\ UNCHANGED << Config, params, ema, bn_flag, bn_backup, pre, prev_warmup >>

\* reg_unsup_loss = 0; with use_rda, the RDA hook's target and the mse against it
RU_RegUnsup ==
    /\ pc = "ru_reg_unsup"
    /\ IF RankUp_UsesRDA(args)
       THEN IF call_hook_result(hooks_dict, "gen_ulb_targets", "RDAHook") # "ok"
            THEN /\ Raise(call_hook_result(hooks_dict, "gen_ulb_targets", "RDAHook"))
                 /\ UNCHANGED << rda, out, calls >>
            ELSE \E preds \in FullPassPredictions(rda), loader_ok \in LoaderOutcomes(rda) :
                    LET r == RDAHook_gen_ulb_targets(rda, preds, loader_ok)
                        reg_pseudo_label == r.buffer[out.idx]
                    IN  /\ rda' = r
                        /\ out' = [out EXCEPT !.target = reg_pseudo_label,
                                              !.unsup = mse(out.logits, reg_pseudo_label)]
                        /\ calls' = Append(calls, Call("RDAHook.gen_ulb_targets",
                                                       hooks_dict["RDAHook"].owner))
                        /\ pc' = "ru_masking"
                        /\ err' = err
       ELSE /\ out' = [out EXCEPT !.unsup = 0]
            /\ pc' = "ru_masking"
            /\ UNCHANGED << rda, calls, err >>
    /\ UNCHANGED << Config, params, ema, bn_flag, bn_backup, pre, prev_warmup >>

\* mask = self.call_hook("masking", "MaskingHook", ...)
RU_Masking ==
    /\ pc = "ru_masking"
    /\ IF call_hook_result(hooks_dict, "masking", "MaskingHook") # "ok"
       THEN /\ Raise(call_hook_result(hooks_dict, "masking", "MaskingHook"))
            /\ UNCHANGED calls
       ELSE /\ calls' = Append(calls, Call("MaskingHook.masking", hooks_dict["MaskingHook"].owner))
            /\ pc' = "ru_pseudo_label"
            /\ err' = err
    /\ UNCHANGED << Config, params, ema, bn_flag, bn_backup, rda, out, pre, prev_warmup >>

\* arc_pseudo_label = self.call_hook("gen_ulb_targets", "PseudoLabelingHook", ...)
RU_PseudoLabel ==
    /\ pc = "ru_pseudo_label"
    /\ IF call_hook_result(hooks_dict, "gen_ulb_targets", "PseudoLabelingHook") # "ok"
       THEN /\ Raise(call_hook_result(hooks_dict, "gen_ulb_targets", "PseudoLabelingHook"))
            /\ UNCHANGED calls
       ELSE /\ calls' = Append(calls, Call("PseudoLabelingHook.gen_ulb_targets",
                                           hooks_dict["PseudoLabelingHook"].owner))
            /\ pc' = "ru_loss"
            /\ err' = err
    /\ UNCHANGED << Config, params, ema, bn_flag, bn_backup, rda, out, pre, prev_warmup >>

\* reg_unsup_warmup, total_reg_loss, total_loss; the step returns
RU_Loss ==
    /\ pc = "ru_loss"
    /\ IF WarmupRaises(args)
       THEN /\ Raise("ZeroDivisionError")
            /\ UNCHANGED << out, prev_warmup >>
       ELSE /\ out' = [out EXCEPT !.warmup = reg_unsup_warmup(it, args),
                                  !.total = total_reg_loss(out.sup, args.reg_ulb_loss_ratio,
                                                           out.unsup, reg_unsup_warmup(it, args))]
            /\ prev_warmup' = Append(prev_warmup, reg_unsup_warmup(it, args))
            /\ pc' = "returned"
            /\ err' = err
    /\ UNCHANGED << Config, params, ema, bn_flag, bn_backup, rda, calls, pre >>

(***************************************************************************)
(* The training loop between two steps: the optimizer moves the            *)
(* parameters, the EMA shadow follows, the iteration counter advances.     *)
(***************************************************************************)
AfterStep ==
    /\ pc = "returned"
    /\ params' = Weights("student", it + 1)
    /\ ema' = [ema EXCEPT !.shadow = Weights("ema", it + 1)]
    /\ it' = it + 1
    /\ pc' = "idle"
    /\ out' = NoOut
    /\ calls' = <<>>
    /\ pre' = [params |-> params', bn_flag |-> bn_flag]
    /\ UNCHANGED << args, hooks_dict, err, bn_flag, bn_backup, rda, prev_warmup >>

Next ==
    \/ MT_ForwardLb \/ MT_ApplyShadow \/ MT_FreezeBn1 \/ MT_ForwardUlbW
    \/ MT_UnfreezeBn1 \/ MT_Restore \/ MT_FreezeBn2 \/ MT_ForwardUlbW2
    \/ MT_UnfreezeBn2 \/ MT_Loss
    \/ RU_ForwardLb \/ RU_FreezeBn \/ RU_ForwardUlbW \/ RU_UnfreezeBn
    \/ RU_ForwardUlbS \/ RU_RegUnsup \/ RU_Masking \/ RU_PseudoLabel \/ RU_Loss
    \/ AfterStep

Spec == Init /\ [][Next]_vars

\* Schedule and loss mixing: every warm-up fraction, length of run and ratio.
InitSchedule == InitWith(BOOLEAN, WarmFractions, 1..MaxTrainIter, 0..MaxRatio, {MaxRefine},
                         {{"EMAHook"}}, {[l \in Layers |-> TRUE]})
SpecSchedule == InitSchedule /\ [][Next]_vars

\* Hooks and the RDA buffer: every base registration and refinement period.
InitHooks == InitWith(BOOLEAN, {Rat(1, WarmDen)}, {MaxTrainIter}, {MaxRatio}, 1..MaxRefine,
                      BaseHookSets, {[l \in Layers |-> TRUE]})
SpecHooks == InitHooks /\ [][Next]_vars

\* Teacher passes: every setting of the BN flags.
InitTeacher == InitWith(BOOLEAN, {Rat(1, WarmDen)}, {MaxTrainIter}, {MaxRatio}, {MaxRefine},
                        {{"EMAHook"}}, [Layers -> BOOLEAN])
SpecTeacher == InitTeacher /\ [][Next]_vars

(***************************************************************************)
(* Properties.                                                             *)
(***************************************************************************)
Ops(cs) == [i \in DOMAIN cs |-> cs[i].op]
IsHookCall(c) == c.owner # ""
IsForward(c) == c.op \in {"forward x_lb", "forward x_ulb_w", "forward x_ulb_w_2", "forward x_ulb_s"}
HookCalls == Ops(SelectSeq(calls, IsHookCall))
IsRdaCall(c) == c.op = "RDAHook.gen_ulb_targets"
RdaCalls == Len(SelectSeq(calls, IsRdaCall))

\* C1: when a step has failed, the EMA shadow is no longer applied and every
\* BN flag has the value it had before the step froze it.
C1_NoLeakAfterFailure ==
    pc = "failed" => /\ ~ShadowApplied(ema)
                     /\ params = pre.params
                     /\ bn_flag = pre.bn_flag

\* C2: the warm-up weights of the steps so far (iterations 0, 1, ...) lie in
\* [0,1], never decrease, and are 1 from iteration
\* reg_unsup_warm_up * num_train_iter on.
C2_WarmupMonotoneBounded ==
    /\ \A i \in DOMAIN prev_warmup :
          /\ RatLeq(RatZero, prev_warmup[i])
          /\ RatLeq(prev_warmup[i], RatOne)
          /\ RatLeq(WarmUpSpan(args), Rat(i - 1, 1)) => RatEq(prev_warmup[i], RatOne)
    /\ \A i, j \in DOMAIN prev_warmup : i <= j => RatLeq(prev_warmup[i], prev_warmup[j])
    /\ pc = "returned" => /\ Len(prev_warmup) = it + 1
                          /\ out.warmup = prev_warmup[it + 1]

C2_Witness ==
    /\ Len(prev_warmup) = 3
    /\ RatEq(prev_warmup[1], RatZero)
    /\ RatLess(prev_warmup[1], prev_warmup[2])
    /\ RatLess(prev_warmup[2], prev_warmup[3])
    /\ RatEq(prev_warmup[3], RatOne)

\* C3: with reg_unsup_warm_up = 0 no step fails on a division by zero, and a
\* step that returns has used the warm-up weight 1.
C3_ZeroWarmupRampIsOne ==
    args.reg_unsup_warm_up.num = 0 =>
        /\ err # "ZeroDivisionError"
        /\ pc = "returned" => RatEq(out.warmup, RatOne)

\* C4: a RankUp step with use_rda = False returns total_reg_loss equal to
\* reg_sup_loss, its unsupervised regression loss being 0.
C4_NoRdaTotalIsSup ==
    (args.alg = "rankup" /\ ~args.use_rda) =>
        /\ pc \in {"ru_masking", "ru_pseudo_label", "ru_loss", "returned"} => out.unsup = 0
        /\ pc = "returned" => RatEq(out.total, Rat(out.sup, 1))

C4_Witness ==
    /\ args.alg = "rankup" /\ ~args.use_rda
    /\ pc = "returned"
    /\ args.reg_ulb_loss_ratio > 0
    /\ RatLess(RatZero, out.warmup)
    /\ out.sup > 0
    /\ out.logits # InitTarget

C6_LastRegistrationWins ==
    args.alg = "rankup" =>
        /\ \A n \in {"RDAHook", "PseudoLabelingHook", "MaskingHook"} :
              /\ n \in DOMAIN hooks_dict
              /\ hooks_dict[n].owner = "RankUp"
        /\ hooks_dict["MaskingHook"].cls = "FixedThresholdingHook"
        /\ \A i \in DOMAIN calls : IsHookCall(calls[i]) => calls[i].owner = "RankUp"

C6_Witness ==
    /\ args.alg = "rankup"
    /\ {"RDAHook", "PseudoLabelingHook", "MaskingHook"} \subseteq args.base_hooks
    /\ pc = "ru_loss"
    /\ Len(HookCalls) = 3

\* C7: with use_rda = True every step calls the RDA hook exactly once, the
\* hook's counter counts those calls, a refinement pass runs exactly in the
\* calls that bring the counter to a multiple of num_refine_iter, and the
\* target a call returns is the entry of the buffer as that call left it.
C7_RefinementSynchronous ==
    (args.alg = "rankup" /\ args.use_rda) =>
        /\ rda.count = it + RdaCalls
        /\ rda.passes = rda.count \div rda.num_refine_iter
        /\ pc \in {"ru_masking", "ru_pseudo_label", "ru_loss", "returned"} => RdaCalls = 1
        /\ RdaCalls = 1 =>
              /\ rda.due = (rda.count % rda.num_refine_iter = 0)
              /\ out.target = rda.buffer[out.idx]
              /\ ~rda.due => rda.buffer = rda.before

C7_Witness ==
    /\ args.alg = "rankup" /\ args.use_rda
    /\ args.rda_num_refine_iter = 2
    /\ pc = "ru_masking"
    /\ rda.count = 2
    /\ rda.due /\ ~rda.aborted
    /\ out.target # rda.before[out.idx]

\* C8: a refinement whose pass over the unlabeled set cannot complete leaves
\* every buffer entry as it was, and the step that triggered it does not fail.
C8_AbortedRefinementKeepsBuffer ==
    (RdaCalls = 1 /\ rda.aborted) =>
        /\ rda.buffer = rda.before
        /\ out.target = rda.before[out.idx]
        /\ pc # "failed"
        /\ err = "none"

C8_Witness ==
    /\ RdaCalls = 1 /\ rda.aborted
    /\ pc = "returned"
    /\ rda.passes = 2
    /\ rda.buffer # [i \in UlbIdx |-> InitTarget]

\* C9: a MeanTeacher step makes its calls in the order forward(x_lb),
\* apply_shadow, freeze_bn, forward(x_ulb_w), unfreeze_bn, restore, freeze_bn,
\* forward(x_ulb_w_2), unfreeze_bn; no forward pass runs with the shadow
\* applied and BN not frozen; while the shadow is applied the live parameters
\* are the shadow and the remembered ones are the student's; and a completed
\* step leaves the student's parameters and the BN flags as it found them.
MT_CallOrder ==
    << "forward x_lb", "apply_shadow", "freeze_bn", "forward x_ulb_w", "unfreeze_bn",
       "restore", "freeze_bn", "forward x_ulb_w_2", "unfreeze_bn" >>

C9_TeacherPassBalanced ==
    args.alg = "meanteacher" =>
        /\ \A i \in DOMAIN calls :
              /\ i <= Len(MT_CallOrder) /\ calls[i].op = MT_CallOrder[i]
              /\ (IsForward(calls[i]) /\ calls[i].shadow) => calls[i].frozen
        /\ ShadowApplied(ema) => (params = ema.shadow /\ ema.backup = << pre.params >>)
        /\ pc \in {"mt_loss", "returned"} =>
              /\ Ops(calls) = MT_CallOrder
              /\ ~ShadowApplied(ema) /\ ~BnFrozen(bn_backup)
              /\ params = pre.params
              /\ bn_flag = pre.bn_flag
        /\ pc = "idle" =>
              /\ ~ShadowApplied(ema) /\ ~BnFrozen(bn_backup)
              /\ params = Weights("student", it)

C9_Witness ==
    /\ args.alg = "meanteacher"
    /\ pc = "returned"
    /\ it = 1
    /\ \E l, m \in Layers : bn_flag[l] /\ ~bn_flag[m]

\* C10: with use_rda = False the RDA hook is never called: its counter and
\* buffer stay as constructed and no refinement pass runs, while each step
\* calls the masking hook and then the pseudo-labeling hook, once each.
C10_NoRdaHookUntouched ==
    (args.alg = "rankup" /\ ~args.use_rda) =>
        /\ rda = RDAHook_init(args.rda_num_refine_iter)
        /\ RdaCalls = 0
        /\ pc \in {"ru_loss", "returned"} =>
              HookCalls = << "MaskingHook.masking", "PseudoLabelingHook.gen_ulb_targets" >>
        /\ pc \in {"idle", "ru_freeze_bn", "ru_forward_ulb_w", "ru_unfreeze_bn",
                   "ru_forward_ulb_s", "ru_reg_unsup", "ru_masking"} => HookCalls = << >>

C10_Witness ==
    /\ args.alg = "rankup" /\ ~args.use_rda
    /\ args.rda_num_refine_iter = 1
    /\ pc = "returned"
    /\ it = 1

=============================================================================
